---- MODULE Spec2Model ----
(***************************************************************************)
(* A model of the aspen-api client (class Aspen of src/index.ts): one      *)
(* Session object per institution, its cookie jar and cached class-list    *)
(* page, the public operations login / getClasses / getClass /             *)
(* getAssignments / getSchedule / getCookies, and the Aspen server they    *)
(* talk to (session table, focused class, schedule context).               *)
(*                                                                         *)
(* Every public operation is an async function: the code between two       *)
(* awaits runs atomically, and another call on the same object may run     *)
(* while a request is awaited.  A call is therefore a small process whose  *)
(* pc names the request it is awaiting; one action starts a call (running  *)
(* it up to its first await) and one action per awaited request delivers   *)
(* the response and runs the continuation up to the next await.            *)
(***************************************************************************)
EXTENDS Integers, Sequences, FiniteSets, TLC

VARIABLES
    cookiePathAttr, \* server deployment: the Path attribute of its Set-Cookie
    srvAuth,        \* server: state of each server-side session (JSESSIONID)
    srvFocus,       \* server: the class each server-side session has focused
    srvPrimed,      \* server: schedule context primed for the session
    made,           \* client: which Aspen objects have been constructed
    cookieJar,      \* client: this.cookieJar of each Aspen object
    classPage,      \* client: this.classPage of each Aspen object
    loginCalled,    \* history: login() was called on the object
    resumed,        \* history: the object was constructed from exported cookies
    exported,       \* the last value returned by getCookies()
    calls,          \* the calls of public operations in flight
    last,           \* the call that has just settled, with its outcome
    nOps,           \* number of calls started so far
    detailDoc,      \* decoding: the class-detail document given to getClass
    classData,      \* decoding: what getClass made of it
    gridRows,       \* decoding: the rows of a class-list or assignment-list page
    gridData,       \* decoding: what getClasses / getAssignments made of them
    matrixDoc,      \* decoding: the schedule matrix page given to getSchedule
    schedule        \* decoding: what getSchedule made of it

sessVars == <<cookiePathAttr, srvAuth, srvFocus, srvPrimed, made, cookieJar,
              classPage, loginCalled, resumed, exported, calls, last, nOps>>
decVars == <<detailDoc, classData, gridRows, gridData, matrixDoc, schedule>>
vars == <<sessVars, decVars>>

(***************************************************************************)
(* Bounds of the model.                                                    *)
(***************************************************************************)
MaxOps == 3         \* calls of public operations started in one behaviour
MaxJ == 2           \* server-side sessions the server ever issues

Sessions == {"s1", "s2"}        \* Aspen objects
Calls == {"c1", "c2"}           \* calls that can be in flight at once
JIds == 1 .. MaxJ
Tokens == {"tA", "tB"}          \* class tokens the backend recognises
BogusToken == "tX"              \* a token the backend does not recognise
TokenInputs == Tokens \cup {BogusToken}

(***************************************************************************)
(* Error values.  The code throws plain Error objects told apart by their  *)
(* message, or lets the transport's (got) and the DOM's exceptions escape. *)
(* An error is modelled by its class and its message.                      *)
(***************************************************************************)
ConnectionError == "Unable to connect to Aspen"
Generic500Error == "Aspen returned 500 Server Error"
InvalidLoginError == "Invalid Aspen username or password"
InvalidSessionError == "Invalid Aspen session"
UnknownClassError == "Invalid Class Code"

NoData == <<>>
OkRes == [kind |-> "ok", cls |-> "", msg |-> "", data |-> NoData]
NoRes == [kind |-> "none", cls |-> "", msg |-> "", data |-> NoData]
Thrown(cls, msg) == [kind |-> "error", cls |-> cls, msg |-> msg, data |-> NoData]
Returned(kind, data) == [kind |-> kind, cls |-> "", msg |-> "", data |-> data]

\* the exceptions of the collaborators
TransportFailure == Thrown("RequestError", "connect ECONNREFUSED")
HttpFailure == Thrown("HTTPError", "ERR_NON_2XX_3XX_RESPONSE")
FormDataTypeError == Thrown("TypeError", "parameter 1 is not of type HTMLFormElement")

\* got's class hierarchy: HTTPError extends RequestError
InstanceOfRequestError(e) == e.cls \in {"RequestError", "HTTPError"}
InstanceOfHTTPError(e) == e.cls = "HTTPError"

IsError(r, msg) == r.kind = "error" /\ r.cls = "Error" /\ r.msg = msg

(***************************************************************************)
(* Pages.  A response body is described by what the code looks for in it:  *)
(* its kind (which forms and grids it holds), the class it shows, and the  *)
(* two literal markers login() searches for.                               *)
(***************************************************************************)
Page(kind, cls, inv, nlo) == [kind |-> kind, cls |-> cls, inv |-> inv, nlo |-> nlo]
NoPage == Page("none", "none", FALSE, FALSE)            \* classPage undefined
LogonPage == Page("logon", "none", FALSE, FALSE)
HomePage == Page("home", "none", FALSE, FALSE)
NotLoggedPage == Page("notLogged", "none", FALSE, TRUE)
ClassListPage == Page("classList", "none", FALSE, FALSE)
ClassDetailPage(t) == Page("classDetail", t, FALSE, FALSE)
UnknownClassPage == Page("unknownClass", "none", FALSE, FALSE)
AssignmentPage(t) == Page("assignList", t, FALSE, FALSE)
ContextPage == Page("context", "none", FALSE, FALSE)
MatrixPage == Page("matrix", "none", FALSE, FALSE)
UnprimedPage == Page("unprimed", "none", FALSE, FALSE)

IncludesInvalidLogin(body) == body.inv      \* body.includes("Invalid login.")
IncludesNotLoggedOn(body) == body.nlo       \* body.includes("Not logged on")
HasClassListForm(page) == page.kind = "classList"

(***************************************************************************)
(* Cookies.  Only the session cookie matters; a cookie is the server-side  *)
(* session it names and its path.  A path is the sequence of its           *)
(* components, the slashes included ("/aspen/" is <<"/","aspen","/">>),    *)
(* which is enough for tough-cookie's prefix test on the paths used here.  *)
(***************************************************************************)
PathRoot == <<"/">>
PathAspen == <<"/", "aspen">>
PathAspenSlash == <<"/", "aspen", "/">>
NoPathAttr == <<>>
CookiePaths == {PathRoot, PathAspen, PathAspenSlash}
PathAttrs == {NoPathAttr, PathAspenSlash}

\* the path of a request to `${prefixUrl}/<page>`
RequestPath(page) == PathAspen \o <<"/", page>>
\* the URL getCookies() asks the jar about
ExportPath == PathAspen
\* the URL the constructor and login() store cookies under
StoreUrlPath == PathRoot

IsPrefix(p, q) == Len(p) <= Len(q) /\ SubSeq(q, 1, Len(p)) = p

\* tough-cookie pathMatch(reqPath, cookiePath)
PathMatch(reqPath, cookiePath) ==
    \/ cookiePath = reqPath
    \/ /\ IsPrefix(cookiePath, reqPath)
       /\ \/ cookiePath[Len(cookiePath)] = "/"
          \/ /\ Len(reqPath) > Len(cookiePath)
             /\ reqPath[Len(cookiePath) + 1] = "/"

\* tough-cookie defaultPath(urlPath): up to, not including, the last slash
LastSlash(p) == CHOOSE i \in 1 .. Len(p) :
                    /\ p[i] = "/"
                    /\ \A k \in (i + 1) .. Len(p) : p[k] # "/"
DefaultPath(urlPath) ==
    IF Len(urlPath) = 0 \/ urlPath[1] # "/" THEN PathRoot
    ELSE IF LastSlash(urlPath) = 1 THEN PathRoot
    ELSE SubSeq(urlPath, 1, LastSlash(urlPath) - 1)

\* the cookie a Set-Cookie header becomes when stored for a URL
StoredCookie(j, attr, urlPath) ==
    [j |-> j, path |-> IF attr = NoPathAttr THEN DefaultPath(urlPath) ELSE attr]

\* CookieJar.setCookie: a cookie replaces the one with the same key
SetCookie(jar, c) == {x \in jar : x.path # c.path} \cup {c}

\* CookieJar.getCookies(url): the cookies whose path matches the URL's
MatchingCookies(jar, urlPath) == {c \in jar : PathMatch(urlPath, c.path)}

\* the cookies a request of this object carries
RequestCookies(jar, page) == MatchingCookies(jar, RequestPath(page))

\* the session the server reads from a request: cookies are sent longest
\* path first and the server takes the first JSESSIONID; 0 when none is sent
ServerSession(sent) ==
    IF sent = {} THEN 0
    ELSE (CHOOSE c \in sent : \A d \in sent : Len(d.path) <= Len(c.path)).j

Authenticated(j) == j # 0 /\ srvAuth[j] = "auth"
Live(j) == j # 0 /\ srvAuth[j] \in {"anon", "auth"}
FreshJ == {j \in JIds : srvAuth[j] = "none"}

(***************************************************************************)
(* Text and JavaScript values.  A text is the sequence of its characters,  *)
(* so that trim, slice, parseFloat and Number are computed as the code     *)
(* computes them.  A JavaScript value is a number (an exact fraction v/d), *)
(* null, undefined or NaN.                                                 *)
(***************************************************************************)
Digits == <<"0", "1", "2", "3", "4", "5", "6", "7", "8", "9">>
IsDigit(c) == \E i \in 1 .. 10 : Digits[i] = c
DigitVal(c) == (CHOOSE i \in 1 .. 10 : Digits[i] = c) - 1
IsSpace(c) == c \in {" ", "\n", "\t"}

RECURSIVE GCD(_, _)
GCD(a, b) == IF b = 0 THEN a ELSE GCD(b, a % b)
Abs(n) == IF n < 0 THEN 0 - n ELSE n

JsNull == [t |-> "null", v |-> 0, d |-> 1]
JsUndefined == [t |-> "undefined", v |-> 0, d |-> 1]
JsNaN == [t |-> "NaN", v |-> 0, d |-> 1]
Frac(n, d) ==
    LET g == GCD(Abs(n), d)
    IN  [t |-> "num", v |-> n \div g, d |-> d \div g]
Num(n) == Frac(n, 1)
IsNumber(x) == x.t = "num"

\* ToNumber: null is 0, undefined is NaN
ToNumber(x) == IF x.t = "null" THEN Num(0)
               ELSE IF x.t = "undefined" THEN JsNaN
               ELSE x
JsMul(x, y) ==
    LET a == ToNumber(x)
        b == ToNumber(y)
    IN  IF a.t = "NaN" \/ b.t = "NaN" THEN JsNaN ELSE Frac(a.v * b.v, a.d * b.d)
JsAdd(x, y) ==
    LET a == ToNumber(x)
        b == ToNumber(y)
    IN  IF a.t = "NaN" \/ b.t = "NaN" THEN JsNaN
        ELSE Frac(a.v * b.d + b.v * a.d, a.d * b.d)
JsDiv(x, n) ==
    LET a == ToNumber(x)
    IN  IF a.t = "NaN" THEN JsNaN ELSE Frac(a.v, a.d * n)

RECURSIVE TrimLeft(_)
TrimLeft(s) == IF Len(s) > 0 /\ IsSpace(s[1]) THEN TrimLeft(Tail(s)) ELSE s
RECURSIVE TrimRight(_)
TrimRight(s) == IF Len(s) > 0 /\ IsSpace(s[Len(s)])
                THEN TrimRight(SubSeq(s, 1, Len(s) - 1)) ELSE s
Trim(s) == TrimRight(TrimLeft(s))
\* s.slice(from, -1) with from counted from 0
SliceToLast(s, from) == SubSeq(s, from + 1, Len(s) - 1)

RECURSIVE DigitsLen(_, _)
DigitsLen(s, i) == IF i <= Len(s) /\ IsDigit(s[i]) THEN 1 + DigitsLen(s, i + 1) ELSE 0
RECURSIVE DigitsValue(_, _, _)
DigitsValue(s, i, k) ==
    IF k = 0 THEN 0 ELSE DigitsValue(s, i, k - 1) * 10 + DigitVal(s[i + k - 1])
RECURSIVE Pow10(_)
Pow10(k) == IF k = 0 THEN 1 ELSE 10 * Pow10(k - 1)

\* the longest numeric prefix of s (sign, digits, point, digits):
\* [len |-> characters consumed, ok |-> it holds a digit, val |-> its value]
NumericPrefix(s) ==
    LET signed == Len(s) > 0 /\ s[1] \in {"-", "+"}
        start == IF signed THEN 2 ELSE 1
        k1 == DigitsLen(s, start)
        dot == start + k1 <= Len(s) /\ s[start + k1] = "."
        k2 == IF dot THEN DigitsLen(s, start + k1 + 1) ELSE 0
        mag == DigitsValue(s, start, k1) * Pow10(k2)
                 + (IF dot THEN DigitsValue(s, start + k1 + 1, k2) ELSE 0)
        neg == signed /\ s[1] = "-"
    IN  [len |-> (start - 1) + k1 + (IF dot THEN 1 + k2 ELSE 0),
         ok |-> k1 + k2 > 0,
         val |-> Frac(IF neg THEN 0 - mag ELSE mag, Pow10(k2))]

\* Number.parseFloat(s): the numeric prefix, NaN when there is none
ParseFloat(s) ==
    LET p == NumericPrefix(TrimLeft(s))
    IN  IF p.ok THEN p.val ELSE JsNaN
\* Number(s): 0 for a blank text, NaN unless the whole text is numeric
NumberOf(s) ==
    LET t == Trim(s)
        p == NumericPrefix(t)
    IN  IF t = <<>> THEN Num(0)
        ELSE IF p.ok /\ p.len = Len(t) THEN p.val
        ELSE JsNaN

\* JavaScript objects: functions from property names to values
EmptyObj == <<>>
Put(obj, key, val) ==
    [k \in (DOMAIN obj) \cup {key} |-> IF k = key THEN val ELSE obj[k]]
Get(obj, key) == IF key \in DOMAIN obj THEN obj[key] ELSE JsUndefined
KeyNames == <<"0", "1", "2", "3", "4", "5", "6", "7", "8", "9">>
KeyOf(n) == IF n + 1 \in 1 .. 10 THEN KeyNames[n + 1] ELSE "big"

(***************************************************************************)
(* getClass: decoding the class-detail document.  A document is what the   *)
(* three selectors of getClass find in it: the metadata value cells, the   *)
(* rows of #dataGridLeft (attendance) and the rows of #dataGridRight       *)
(* (grades); a row is the sequence of the texts of its cells.              *)
(***************************************************************************)
Doc(meta, att, grd) == [meta |-> meta, att |-> att, grades |-> grd]
EmptyDoc == Doc(<<>>, <<>>, <<>>)

metadataFields == <<"teacher", "email", "room">>
attendanceFields == <<"absent", "tardy", "dismissed">>
gradeCategories == <<"assessments", "participation", "practiceAndApplication">>

\* array[i] of a JavaScript array, as a property name: "undefined" past its end
NameAt(array, i) == IF i + 1 \in 1 .. Len(array) THEN array[i + 1] ELSE "undefined"

\* the output object as created: grades 1..4, each with empty weights
NewTermGrades == [weights |-> EmptyObj, fields |-> EmptyObj]
NewGrades == [k \in {"1", "2", "3", "4"} |-> NewTermGrades]

\* metadataElems.forEach
RECURSIVE DecodeMetadata(_, _, _)
DecodeMetadata(obj, elems, i) ==
    IF i >= Len(elems) THEN obj
    ELSE DecodeMetadata(
            IF i < Len(metadataFields)
            THEN Put(obj, metadataFields[i + 1], Trim(elems[i + 1]))
            ELSE obj,
            elems, i + 1)

\* attendance terms numbered from 1, like the grades
AttendanceTermFromOne(valIndex) ==
    IF valIndex = 4 THEN "total" ELSE KeyOf(valIndex + 1)

\* one attendance row: slice(1), then a value per cell
AttendanceTerm(valIndex) == IF valIndex = 4 THEN "total" ELSE KeyOf(valIndex)
RECURSIVE DecodeAttendanceCells(_, _, _)
DecodeAttendanceCells(obj, cells, valIndex) ==
    IF valIndex >= Len(cells) THEN obj
    ELSE DecodeAttendanceCells(
            Put(obj, AttendanceTerm(valIndex), NumberOf(cells[valIndex + 1])),
            cells, valIndex + 1)
RECURSIVE DecodeAttendance(_, _, _)
DecodeAttendance(att, rows, rowIndex) ==
    IF rowIndex >= Len(rows) THEN att
    ELSE DecodeAttendance(
            Put(att, NameAt(attendanceFields, rowIndex),
                DecodeAttendanceCells(EmptyObj, Tail(rows[rowIndex + 1]), 0)),
            rows, rowIndex + 1)

\* the rows getClass decodes: Array.from(...).slice(0, -1)
GradeRowsKept(rows) == SubSeq(rows, 1, Len(rows) - 1)

\* the value of a grades cell: null when blank, else parseFloat of the text
\* without its last character
GradeCellValue(text) ==
    IF Trim(text) # <<>> THEN ParseFloat(SliceToLast(Trim(text), 0)) ELSE JsNull

\* a decoder that does not skip the second label of a weight row
StoreGradeCellLabelKept(acc, rowIndex, term, text) ==
    LET val == GradeCellValue(text)
        gradeCategory == NameAt(gradeCategories, rowIndex \div 2)
        weightRow == rowIndex % 2 = 0
        key == KeyOf(term + 1)
        g == acc.grades
    IN  IF acc.err THEN acc
        ELSE IF key \notin DOMAIN g THEN [acc EXCEPT !.err = TRUE]
        ELSE IF weightRow
        THEN [acc EXCEPT !.grades[key].weights = Put(g[key].weights, gradeCategory, val)]
        ELSE [acc EXCEPT !.grades[key].fields = Put(g[key].fields, gradeCategory, val)]

\* one cell of the grades grid; acc is [err, grades], err once a property
\* of an undefined grades[term + 1] was set
StoreGradeCell(acc, rowIndex, term, text) ==
    LET val == GradeCellValue(text)
        gradeCategory == NameAt(gradeCategories, rowIndex \div 2)
        weightRow == rowIndex % 2 = 0
        t == IF weightRow THEN term - 1 ELSE term
        key == KeyOf(t + 1)
        g == acc.grades
    IN  IF acc.err THEN acc
        ELSE IF weightRow /\ t = -1 THEN acc
        ELSE IF key \notin DOMAIN g THEN [acc EXCEPT !.err = TRUE]
        ELSE IF weightRow
        THEN [acc EXCEPT !.grades[key].weights = Put(g[key].weights, gradeCategory, val)]
        ELSE [acc EXCEPT !.grades[key].fields = Put(g[key].fields, gradeCategory, val)]

\* the cells of a row, then the rows: the throw ends both loops
RECURSIVE DecodeGradeCells(_, _, _, _)
DecodeGradeCells(acc, rowIndex, cells, term) ==
    IF acc.err \/ term >= Len(cells) THEN acc
    ELSE DecodeGradeCells(StoreGradeCell(acc, rowIndex, term, cells[term + 1]),
                          rowIndex, cells, term + 1)
RECURSIVE DecodeGradeRows(_, _, _)
DecodeGradeRows(acc, rows, rowIndex) ==
    IF acc.err \/ rowIndex >= Len(rows) THEN acc
    ELSE DecodeGradeRows(
            DecodeGradeCells(acc, rowIndex, Tail(rows[rowIndex + 1]), 0),
            rows, rowIndex + 1)

\* the total of one term
TermTotal(term) ==
    JsDiv(JsAdd(JsAdd(JsMul(Get(term.fields, "assessments"),
                            Get(term.weights, "assessments")),
                      JsMul(Get(term.fields, "participation"),
                            Get(term.weights, "participation"))),
                JsMul(Get(term.fields, "practiceAndApplication"),
                      Get(term.weights, "practiceAndApplication"))),
          100)
WithTotals(grades) ==
    [k \in DOMAIN grades |->
        [grades[k] EXCEPT !.fields = Put(@, "total", TermTotal(grades[k]))]]

\* getClass after #loadClass: the ClassData returned, or the TypeError thrown
GetClassDecode(doc) ==
    LET meta == DecodeMetadata(EmptyObj, doc.meta, 0)
        att == DecodeAttendance(EmptyObj, doc.att, 0)
        acc == DecodeGradeRows([err |-> FALSE, grades |-> NewGrades],
                               GradeRowsKept(doc.grades), 0)
    IN  IF acc.err
        THEN Thrown("TypeError", "Cannot set properties of undefined")
        ELSE Returned("classData",
                      [meta |-> meta, attendance |-> att,
                       grades |-> WithTotals(acc.grades)])

(***************************************************************************)
(* getClasses and getAssignments: decoding the rows of "#dataGrid".  A row *)
(* is the sequence of its cells; a cell is its text, the ids of its child  *)
(* elements and the texts of the td elements inside it.  A string value is *)
(* [t |-> "str", s |-> text].                                              *)
(***************************************************************************)
Cell(text, kids, tds) == [text |-> text, kids |-> kids, tds |-> tds]
Str(s) == [t |-> "str", s |-> s]
NoGrid == [op |-> "none", rows |-> <<>>]
NoMatrix == [headers |-> <<>>, columns |-> <<>>]

\* s.split(sep) for a one-character separator
RECURSIVE Split(_, _)
Split(s, sep) ==
    IF \A i \in 1 .. Len(s) : s[i] # sep THEN <<s>>
    ELSE LET i == CHOOSE k \in 1 .. Len(s) :
                      s[k] = sep /\ \A j \in 1 .. k - 1 : s[j] # sep
         IN  <<SubSeq(s, 1, i - 1)>> \o Split(SubSeq(s, i + 1, Len(s)), sep)
\* array[i] of an array of strings: undefined past its end
StrAt(array, i) == IF i + 1 \in 1 .. Len(array) THEN Str(array[i + 1]) ELSE JsUndefined

classDataFields ==
    <<"token", "name", "course", "term", "teacher", "email", "classroom",
      "null", "grade", "absent", "tardy", "dismissed">>
assignmentFields ==
    <<"null", "name", "dateAssigned", "dateDue", "schedule", "grade", "feedback">>
\* the map's entry for column i: falsy for null and past the end of the map
FieldAt(fields, i) ==
    IF i + 1 \in 1 .. Len(fields) /\ fields[i + 1] # "null" THEN fields[i + 1]
    ELSE "none"

\* !isNaN(data) && !isNaN(parseFloat(data)) ? Number(data) : data
Coerce(data) ==
    IF data.t = "str"
    THEN IF NumberOf(data.s).t # "NaN" /\ ParseFloat(data.s).t # "NaN"
         THEN NumberOf(data.s) ELSE data
    ELSE data

\* one cell of a class row; acc is [err, obj]
ClassCell(acc, elem, i) ==
    LET field == FieldAt(classDataFields, i)
        grade == Split(Trim(elem.text), " ")
    IN  IF acc.err \/ field = "none" THEN acc
        ELSE IF field = "token"
        THEN IF Len(elem.kids) < 2 THEN [acc EXCEPT !.err = TRUE]
             ELSE [acc EXCEPT !.obj = Put(@, field, Coerce(Str(elem.kids[2])))]
        ELSE IF field = "grade"
        THEN [acc EXCEPT !.obj = Put(Put(@, "letterGrade", StrAt(grade, 1)),
                                     field, NumberOf(grade[1]))]
        ELSE [acc EXCEPT !.obj = Put(@, field, Coerce(Str(Trim(elem.text))))]
RECURSIVE ClassCells(_, _, _)
ClassCells(acc, children, i) ==
    IF i >= Len(children) THEN acc
    ELSE ClassCells(ClassCell(acc, children[i + 1], i), children, i + 1)
RECURSIVE ClassRows(_, _, _)
ClassRows(out, rows, n) ==
    IF out.err \/ n > Len(rows) THEN out
    ELSE LET r == ClassCells([err |-> FALSE, obj |-> EmptyObj], rows[n], 0)
         IN  ClassRows([err |-> r.err, list |-> Append(out.list, r.obj)], rows, n + 1)
\* getClasses after its request: the list returned, or the TypeError thrown
ClassListDecode(rows) ==
    LET out == ClassRows([err |-> FALSE, list |-> <<>>], rows, 1)
    IN  IF out.err
        THEN Thrown("TypeError", "Cannot read properties of undefined")
        ELSE Returned("list", out.list)

\* the grade cell of an assignment row: the td elements inside it
RECURSIVE GradeParts(_, _, _, _)
GradeParts(obj, data, tds, i) ==
    IF i >= Len(tds) THEN [obj |-> obj, data |-> data]
    ELSE LET text == Trim(tds[i + 1])
         IN  IF i = 0
             THEN GradeParts(obj, NumberOf(SliceToLast(text, 0)), tds, i + 1)
             ELSE IF i = 1
             THEN GradeParts(Put(obj, "score", Str(text)), data, tds, i + 1)
             ELSE IF i = 2
             THEN GradeParts(Put(obj, "points", NumberOf(SliceToLast(text, 1))),
                             data, tds, i + 1)
             ELSE GradeParts(obj, data, tds, i + 1)
AssignmentCell(obj, elem, columnIndex) ==
    LET field == FieldAt(assignmentFields, columnIndex)
        data == Str(Trim(elem.text))
        g == GradeParts(obj, data, elem.tds, 0)
    IN  IF field = "none" THEN obj
        ELSE IF field = "grade"
        THEN IF Len(elem.tds) = 1
             THEN Put(Put(Put(obj, "points", Str(<<"Ungraded">>)),
                          "score", Str(<<"Ungraded">>)),
                      field, Str(<<"Ungraded">>))
             ELSE Put(g.obj, field, g.data)
        ELSE Put(obj, field, data)
RECURSIVE AssignmentCells(_, _, _)
AssignmentCells(obj, children, columnIndex) ==
    IF columnIndex >= Len(children) THEN obj
    ELSE AssignmentCells(AssignmentCell(obj, children[columnIndex + 1], columnIndex),
                         children, columnIndex + 1)
\* a decoder that skips the rows short of a column of the map
FullAssignmentRow(r) == Len(r) >= Len(assignmentFields)
AssignmentListDecodeFullRows(rows) ==
    LET kept == SelectSeq(rows, FullAssignmentRow)
    IN  Returned("list", [n \in 1 .. Len(kept) |-> AssignmentCells(EmptyObj, kept[n], 0)])

\* getAssignments after its requests: the list returned
AssignmentListDecode(rows) ==
    Returned("list", [n \in 1 .. Len(rows) |-> AssignmentCells(EmptyObj, rows[n], 0)])

(***************************************************************************)
(* getSchedule: decoding the matrix page.  The page is its day-header      *)
(* cells (the words of the text, and whether the style holds "red") and,   *)
(* for each nth-child position from 2 on, the class cells the selector     *)
(* finds there (the parts of the innerHTML between <br>, and whether the   *)
(* enclosing grid cell has a border).  The Schedule is an object: the keys *)
(* currentDay and currentClass and one key per day code, in insertion      *)
(* order (day codes are not integer-like).                                 *)
(***************************************************************************)
Header(words, red) == [words |-> words, red |-> red]
ClassElem(parts, border) == [parts |-> parts, border |-> border]
JsArray(items) == [t |-> "array", items |-> items]
ManagementKeys == {"currentDay", "currentClass"}
classDataKeys == <<"course", "name", "teacher", "room">>

\* header.textContent.trim().split(/\s/g)[0]
DayIdOf(header) == IF header.words = <<>> THEN "" ELSE header.words[1]

\* headers.forEach; acc is [obj, keys], keys the object's keys in order
ScheduleHeader(acc, header) ==
    LET dayID == DayIdOf(header)
        marked == IF header.red THEN Put(acc.obj, "currentDay", Str(dayID))
                  ELSE acc.obj
    IN  [obj |-> Put(marked, dayID, JsArray(<<>>)),
         keys |-> IF \E i \in 1 .. Len(acc.keys) : acc.keys[i] = dayID
                  THEN acc.keys ELSE Append(acc.keys, dayID)]
RECURSIVE ScheduleHeaders(_, _, _)
ScheduleHeaders(acc, headers, n) ==
    IF n > Len(headers) THEN acc
    ELSE ScheduleHeaders(ScheduleHeader(acc, headers[n]), headers, n + 1)

\* Object.keys of the copy without currentDay and currentClass
NotManagementKey(k) == k \notin ManagementKeys
SafeScheduleKeys(keys) == SelectSeq(keys, NotManagementKey)

\* the Period made of one class cell
PeriodOf(classElem) ==
    [t |-> "object",
     course |-> StrAt(classElem.parts, 0),
     name |-> StrAt(classElem.parts, 1),
     teacher |-> StrAt(classElem.parts, 2),
     room |-> StrAt(classElem.parts, 3),
     currentPeriod |-> classElem.border]
\* the class cells of one day: each is pushed, a bordered one is also set
\* as currentClass
RECURSIVE ScheduleDay(_, _, _, _)
ScheduleDay(obj, day, dayClasses, n) ==
    IF n > Len(dayClasses) THEN obj
    ELSE LET periodData == PeriodOf(dayClasses[n])
             surfaced == IF dayClasses[n].border
                         THEN Put(obj, "currentClass", periodData) ELSE obj
         IN  ScheduleDay(Put(surfaced, day,
                             JsArray(Append(surfaced[day].items, periodData))),
                         day, dayClasses, n + 1)
\* document.querySelectorAll(`.listGridFixed td:nth-child(${i + 2}) td`)
DayClasses(doc, i) ==
    IF i + 1 \in 1 .. Len(doc.columns) THEN doc.columns[i + 1] ELSE <<>>
RECURSIVE ScheduleDays(_, _, _, _)
ScheduleDays(obj, keys, doc, i) ==
    IF i >= Len(keys) THEN obj
    ELSE ScheduleDays(ScheduleDay(obj, keys[i + 1], DayClasses(doc, i), 1),
                      keys, doc, i + 1)

\* getSchedule after its requests: the Schedule returned
ScheduleDecode(doc) ==
    LET start == [obj |-> Put(Put(EmptyObj, "currentDay", JsNull),
                              "currentClass", JsNull),
                  keys |-> <<"currentDay", "currentClass">>]
        named == ScheduleHeaders(start, doc.headers, 1)
    IN  Returned("schedule",
                 ScheduleDays(named.obj, SafeScheduleKeys(named.keys), doc, 0))

(***************************************************************************)
(* What the server's pages hold.  The class-detail page of a class is a    *)
(* well-formed document (three attendance rows; three weight/score row     *)
(* pairs and two summary rows in the grades grid); every other page holds  *)
(* none of the elements getClass selects.                                  *)
(***************************************************************************)
Lbl == <<"L">>
Pct(a, b) == <<a, b, "%">>
ClassScore(t) == IF t = "tA" THEN Pct("9", "0") ELSE Pct("8", "0")
ClassDoc(t) ==
    Doc(<<<<t>>, <<"e">>, <<"r">>>>,
        << <<Lbl, <<"1">>, <<"0">>, <<"2">>, <<"0">>, <<"3">>>>,
           <<Lbl, <<"0">>, <<"0">>, <<"1">>, <<"0">>, <<"1">>>>,
           <<Lbl, <<"0">>, <<"0">>, <<"0">>, <<"0">>, <<"0">>>> >>,
        << <<Lbl, Lbl, Pct("5", "0"), Pct("5", "0"), Pct("5", "0"), Pct("5", "0")>>,
           <<Lbl, ClassScore(t), ClassScore(t), <<>>, <<>>>>,
           <<Lbl, Lbl, Pct("3", "0"), Pct("3", "0"), Pct("3", "0"), Pct("3", "0")>>,
           <<Lbl, Pct("7", "0"), Pct("7", "0"), <<>>, <<>>>>,
           <<Lbl, Lbl, Pct("2", "0"), Pct("2", "0"), Pct("2", "0"), Pct("2", "0")>>,
           <<Lbl, Pct("6", "0"), Pct("6", "0"), <<>>, <<>>>>,
           <<Lbl, ClassScore(t), ClassScore(t), <<>>, <<>>>>,
           <<Lbl, ClassScore(t), <<>>, <<>>, <<>>>> >>)
DocOf(page) == IF page.kind = "classDetail" THEN ClassDoc(page.cls) ELSE EmptyDoc

\* getClass's decoding of each page the server can answer a focus POST with
\* (GetClassDecode(DocOf(page)), evaluated once per document)
DecodedClassDoc == [t \in Tokens |-> GetClassDecode(ClassDoc(t))]
DecodedEmptyDoc == GetClassDecode(EmptyDoc)
GetClassOf(page) ==
    IF page.kind = "classDetail" THEN DecodedClassDoc[page.cls] ELSE DecodedEmptyDoc

\* the rows of "#dataGrid .listCell" of a class-list page, by their tokens
Roster(page) == IF page.kind = "classList" THEN <<"tA", "tB">> ELSE <<>>
\* the rows of "#dataGrid tr.listCell" of an assignment-list page, by class
AssignmentsOf(page) ==
    IF page.kind = "assignList" /\ page.cls \in Tokens
    THEN <<[cls |-> page.cls, name |-> "hw1"], [cls |-> page.cls, name |-> "hw2"]>>
    ELSE <<>>
\* the day headers of a matrix page
DaysOf(page) == IF page.kind = "matrix" THEN <<"M", "T">> ELSE <<>>

(***************************************************************************)
(* The server.                                                             *)
(***************************************************************************)
ServeClassList(j) == IF Authenticated(j) THEN ClassListPage ELSE NotLoggedPage
ServeFocus(j, token) ==
    IF ~Authenticated(j) THEN NotLoggedPage
    ELSE IF token \in Tokens THEN ClassDetailPage(token)
    ELSE UnknownClassPage
FocusAfter(j, token) ==
    IF Authenticated(j) /\ token \in Tokens
    THEN [srvFocus EXCEPT ![j] = token] ELSE srvFocus
ServeAssignments(j) ==
    IF Authenticated(j) THEN AssignmentPage(srvFocus[j]) ELSE NotLoggedPage
ServeMatrix(j) ==
    IF ~Authenticated(j) THEN NotLoggedPage
    ELSE IF srvPrimed[j] THEN MatrixPage
    ELSE UnprimedPage

(***************************************************************************)
(* The client: construction and cookie export.                             *)
(***************************************************************************)
\* got.extend({... methodRewriting: true})
MethodRewriting == TRUE
\* the method got uses for the request that follows a redirect of a POST
RedirectedMethod(status) ==
    IF status \in {"307", "308"} THEN "POST"
    ELSE IF status = "303" \/ MethodRewriting THEN "GET"
    ELSE "POST"

\* constructor: every cookie given goes into a new jar
RECURSIVE ConstructJar(_)
ConstructJar(cookies) ==
    IF cookies = {} THEN {}
    ELSE LET c == CHOOSE x \in cookies : TRUE
         IN  SetCookie(ConstructJar(cookies \ {c}), c)

\* getCookies: the jar's cookies for `https://${id}.myfollett.com/aspen`
GetCookies(jar) == MatchingCookies(jar, ExportPath)

NoExport == [valid |-> FALSE, cookies |-> {}, want |-> {}]
NotResumed == [is |-> FALSE, want |-> {}]

IdleCall == [sess |-> "s1", op |-> "none", token |-> "none", good |-> FALSE,
             pc |-> "idle", result |-> NoRes, reqs |-> <<>>, unauth |-> FALSE,
             lost |-> FALSE, status |-> "none", body |-> NoPage,
             accepted |-> FALSE]
NewCall(s, op, token, good, pc, req) ==
    [IdleCall EXCEPT !.sess = s, !.op = op, !.token = token, !.good = good,
                     !.pc = pc, !.reqs = <<req>>]
\* a call that sends its request a second time when the transport failed
FinishAfterRetry(call, res) ==
    IF /\ res.kind = "error" /\ res.cls = "RequestError"
       /\ call.reqs # <<>>
       /\ \A i \in 1 .. Len(call.reqs) - 1 : call.reqs[i] # call.reqs[Len(call.reqs)]
    THEN [call EXCEPT !.reqs = Append(@, @[Len(@)])]
    ELSE [call EXCEPT !.pc = "done", !.result = res]

\* the call returns res or throws it
Finish(call, res) == [call EXCEPT !.pc = "done", !.result = res]

\* the call in slot c goes on as nc: a settled call leaves its slot
Settle(c, nc) ==
    /\ calls' = [calls EXCEPT ![c] = IF nc.pc = "done" THEN IdleCall ELSE nc]
    /\ last' = IF nc.pc = "done" THEN nc ELSE last

\* nothing runs between a call's settling and its caller's continuation
\* (the continuation is a microtask of the same turn of the event loop)
Quiet == last.pc # "done"

\* The caller: it awaits each call before the next one, except that it may
\* issue class-scoped operations (getClass, getAssignments) on one object
\* without awaiting the previous one.  A call takes the first free slot.
ClassOps == {"getClass", "getAssignments"}
CanStart(c, s, op) ==
    /\ Quiet
    /\ nOps < MaxOps
    /\ made[s]
    /\ calls[c].pc = "idle"
    /\ \A d \in Calls \ {c} :
          IF calls[d].pc = "idle" THEN c = "c1"
          ELSE op \in ClassOps /\ calls[d].op \in ClassOps /\ calls[d].sess = s

Init ==
    /\ cookiePathAttr \in PathAttrs
    /\ srvAuth = [j \in JIds |-> "none"]
    /\ srvFocus = [j \in JIds |-> "none"]
    /\ srvPrimed = [j \in JIds |-> FALSE]
    /\ made = [s \in Sessions |-> s = "s1"]
    /\ cookieJar = [s \in Sessions |-> {}]
    /\ classPage = [s \in Sessions |-> NoPage]
    /\ loginCalled = [s \in Sessions |-> FALSE]
    /\ resumed = [s \in Sessions |-> NotResumed]
    /\ exported = NoExport
    /\ calls = [c \in Calls |-> IdleCall]
    /\ last = IdleCall
    /\ nOps = 0
    /\ detailDoc = EmptyDoc
    /\ classData = NoRes
    /\ gridRows = NoGrid
    /\ gridData = NoRes
    /\ matrixDoc = NoMatrix
    /\ schedule = NoRes

\* new Aspen(id, cookies) with the cookies an earlier getCookies() returned
\* (the object made without cookies is the one of the initial state)
Construct(s) ==
    /\ Quiet
    /\ ~made[s]
    /\ exported.valid
    /\ made' = [made EXCEPT ![s] = TRUE]
    /\ cookieJar' = [cookieJar EXCEPT ![s] = ConstructJar(exported.cookies)]
    /\ resumed' = [resumed EXCEPT ![s] = [is |-> TRUE, want |-> exported.want]]
    /\ UNCHANGED <<cookiePathAttr, srvAuth, srvFocus, srvPrimed, classPage,
                   loginCalled, exported, calls, last, nOps>>
    /\ UNCHANGED decVars

\* getCookies()
ExportCookies(s) ==
    /\ Quiet
    /\ made[s]
    /\ exported' = [valid |-> TRUE,
                    cookies |-> GetCookies(cookieJar[s]),
                    want |-> RequestCookies(cookieJar[s], "portalClassList.do")]
    /\ exported' # exported
    /\ UNCHANGED <<cookiePathAttr, srvAuth, srvFocus, srvPrimed, made, cookieJar,
                   classPage, loginCalled, resumed, calls, last, nOps>>
    /\ UNCHANGED decVars

\* the server drops a session (timeout)
ServerExpire(j) ==
    /\ Quiet
    /\ srvAuth[j] \in {"anon", "auth"}
    /\ srvAuth' = [srvAuth EXCEPT ![j] = "expired"]
    /\ UNCHANGED <<cookiePathAttr, srvFocus, srvPrimed, made, cookieJar, classPage,
                   loginCalled, resumed, exported, calls, last, nOps>>
    /\ UNCHANGED decVars

(***************************************************************************)
(* login                                                                   *)
(***************************************************************************)
\* a catch block that lets the non-2xx answer pass, as src/index.js does
LoginCatchSwallowing(e) ==
    IF e.msg # "ERR_NON_2XX_3XX_RESPONSE" THEN e ELSE OkRes

\* the catch block around the credential POST; e.msg holds got's error code
LoginCatch(e) ==
    IF InstanceOfRequestError(e) THEN Thrown("Error", ConnectionError)
    ELSE IF InstanceOfHTTPError(e) /\ e.msg = "ERR_NON_2XX_3XX_RESPONSE"
    THEN Thrown("Error", Generic500Error)
    ELSE e

\* a classification that misses the session marker
LoginClassifyCredentialsOnly(body) ==
    IF IncludesInvalidLogin(body) THEN Thrown("Error", InvalidLoginError)
    ELSE OkRes

\* the classification of the response body
LoginClassify(body) ==
    IF IncludesInvalidLogin(body) THEN Thrown("Error", InvalidLoginError)
    ELSE IF IncludesNotLoggedOn(body) THEN Thrown("Error", InvalidSessionError)
    ELSE OkRes

\* login(): up to the await of the login page
StartLogin(c, s, good) ==
    /\ CanStart(c, s, "login")
    /\ calls' = [calls EXCEPT ![c] =
                    NewCall(s, "login", "none", good, "getLogon", "GET logon.do")]
    /\ loginCalled' = [loginCalled EXCEPT ![s] = TRUE]
    /\ nOps' = nOps + 1
    /\ UNCHANGED <<cookiePathAttr, srvAuth, srvFocus, srvPrimed, made, cookieJar,
                   classPage, resumed, exported, last>>
    /\ UNCHANGED decVars

\* the login page arrives (or the transport fails): cookies are stored, the
\* form is read and the credentials are posted
LogonPageResponse(c, outcome) ==
    LET call == calls[c]
        s == call.sess
        j == ServerSession(RequestCookies(cookieJar[s], "logon.do"))
        fresh == CHOOSE k \in FreshJ : \A m \in FreshJ : k <= m
        byGot == StoredCookie(fresh, cookiePathAttr, RequestPath("logon.do"))
        byLoop == StoredCookie(fresh, cookiePathAttr, StoreUrlPath)
        posted == [call EXCEPT !.pc = "postLogon",
                               !.reqs = Append(@, "POST logon.do")]
    IN
    /\ Quiet
    /\ call.pc = "getLogon"
    /\ \/ /\ outcome = "neterr"
          /\ Settle(c, Finish(call, TransportFailure))
          /\ UNCHANGED <<srvAuth, cookieJar>>
       \/ /\ outcome = "ok"
          /\ Live(j)
          /\ Settle(c, posted)
          /\ UNCHANGED <<srvAuth, cookieJar>>
       \/ /\ outcome = "ok"
          /\ ~Live(j)
          /\ FreshJ # {}
          /\ srvAuth' = [srvAuth EXCEPT ![fresh] = "anon"]
          /\ cookieJar' = [cookieJar EXCEPT ![s] = SetCookie(SetCookie(@, byGot), byLoop)]
          /\ Settle(c, posted)
    /\ UNCHANGED <<cookiePathAttr, srvFocus, srvPrimed, made, classPage,
                   loginCalled, resumed, exported, nOps>>
    /\ UNCHANGED decVars

\* what got makes of the server's answer to the credential POST: the body
\* of a 2xx answer, or the exception it rejects with
LoginBody(accepted, inv, nlo) ==
    IF accepted THEN HomePage ELSE Page("logon", "none", inv, nlo)
LoginException(status) ==
    IF status = "neterr" THEN TransportFailure
    ELSE IF status = "500" THEN HttpFailure
    ELSE IF status \in {"301", "302", "303", "307", "308"}
            /\ RedirectedMethod(status) # "GET"
    THEN HttpFailure            \* home.do answers a POST with 502
    ELSE NoRes

\* login() after the credential POST: the error of the catch block, or the
\* classification of the body
LoginOutcome(exc, body) ==
    IF exc.kind = "error" THEN LoginCatch(exc) ELSE LoginClassify(body)

\* the answer to the credential POST arrives
LoginSubmitResponse(c, status, inv, nlo) ==
    LET call == calls[c]
        s == call.sess
        j == ServerSession(RequestCookies(cookieJar[s], "logon.do"))
        accepted == Live(j) /\ call.good /\ status \in {"200", "302", "307"}
        exc == LoginException(status)
        body == LoginBody(accepted, inv, nlo)
    IN
    /\ Quiet
    /\ call.pc = "postLogon"
    /\ status \in {"302", "307"} => accepted
    /\ (status = "200" /\ ~accepted) => IF Live(j) THEN inv ELSE nlo
    /\ (status # "200" \/ accepted) => (~inv /\ ~nlo)
    /\ srvAuth' = IF accepted THEN [srvAuth EXCEPT ![j] = "auth"] ELSE srvAuth
    /\ Settle(c, [Finish(call, LoginOutcome(exc, body))
                    EXCEPT !.status = status, !.accepted = accepted,
                           !.body = IF exc.kind = "error" THEN NoPage ELSE body])
    /\ UNCHANGED <<cookiePathAttr, srvFocus, srvPrimed, made, cookieJar, classPage,
                   loginCalled, resumed, exported, nOps>>
    /\ UNCHANGED decVars

(***************************************************************************)
(* getClasses                                                              *)
(***************************************************************************)
StartGetClasses(c, s) ==
    /\ CanStart(c, s, "getClasses")
    /\ calls' = [calls EXCEPT ![c] =
                    NewCall(s, "getClasses", "none", FALSE, "getList",
                            "GET portalClassList.do")]
    /\ nOps' = nOps + 1
    /\ UNCHANGED <<cookiePathAttr, srvAuth, srvFocus, srvPrimed, made, cookieJar,
                   classPage, loginCalled, resumed, exported, last>>
    /\ UNCHANGED decVars

\* the rows of the class-list page, decoded
GetClassesDecode(page) == Returned("list", Roster(page))

ClassListResponse(c, outcome) ==
    LET call == calls[c]
        s == call.sess
        j == ServerSession(RequestCookies(cookieJar[s], "portalClassList.do"))
        page == ServeClassList(j)
    IN
    /\ Quiet
    /\ call.pc = "getList"
    /\ \/ /\ outcome = "neterr"
          /\ Settle(c, Finish(call, TransportFailure))
          /\ UNCHANGED classPage
       \/ /\ outcome = "ok"
          /\ classPage' = [classPage EXCEPT ![s] = page]
          /\ Settle(c, [Finish(call, GetClassesDecode(page))
                          EXCEPT !.body = page, !.unauth = ~Authenticated(j)])
    /\ UNCHANGED <<cookiePathAttr, srvAuth, srvFocus, srvPrimed, made, cookieJar,
                   loginCalled, resumed, exported, nOps>>
    /\ UNCHANGED decVars

(***************************************************************************)
(* #loadClass, getClass and getAssignments                                 *)
(***************************************************************************)
\* a #loadClass that goes on without the focus POST when the page has no
\* form, so that getAssignments asks for the list of an unfocused class
SubmitFocusSkippedWithoutForm(call, page) ==
    IF HasClassListForm(page)
    THEN [call EXCEPT !.pc = "lcFocus",
                      !.reqs = Append(@, "POST portalClassList.do")]
    ELSE IF call.op = "getAssignments"
         THEN [call EXCEPT !.pc = "getAssign",
                           !.reqs = Append(@, "GET portalAssignmentList.do")]
         ELSE [call EXCEPT !.pc = "done", !.result = FormDataTypeError]

\* #loadClass from the form on: the FormData of the class-list form is
\* built (a TypeError when the page has no such form) and posted
SubmitFocus(call, page) ==
    IF HasClassListForm(page)
    THEN [call EXCEPT !.pc = "lcFocus",
                      !.reqs = Append(@, "POST portalClassList.do")]
    ELSE Finish(call, FormDataTypeError)

\* a #loadClass that fetches the class list whether or not it is cached
StartClassOpAlwaysFetching(c, s, op, token) ==
    /\ CanStart(c, s, op)
    /\ Settle(c, NewCall(s, op, token, FALSE, "lcList", "GET portalClassList.do"))
    /\ nOps' = nOps + 1
    /\ UNCHANGED <<cookiePathAttr, srvAuth, srvFocus, srvPrimed, made, cookieJar,
                   classPage, loginCalled, resumed, exported>>
    /\ UNCHANGED decVars

\* getClass(token) / getAssignments(token): #loadClass up to its first await
StartClassOp(c, s, op, token) ==
    LET fetch == NewCall(s, op, token, FALSE, "lcList", "GET portalClassList.do")
        cached == [IdleCall EXCEPT !.sess = s, !.op = op, !.token = token]
    IN
    /\ CanStart(c, s, op)
    /\ Settle(c, IF classPage[s] = NoPage THEN fetch
                 ELSE SubmitFocus(cached, classPage[s]))
    /\ nOps' = nOps + 1
    /\ UNCHANGED <<cookiePathAttr, srvAuth, srvFocus, srvPrimed, made, cookieJar,
                   classPage, loginCalled, resumed, exported>>
    /\ UNCHANGED decVars

\* #loadClass: the class-list page it fetched arrives
LoadClassListResponse(c, outcome) ==
    LET call == calls[c]
        s == call.sess
        j == ServerSession(RequestCookies(cookieJar[s], "portalClassList.do"))
        page == ServeClassList(j)
    IN
    /\ Quiet
    /\ call.pc = "lcList"
    /\ \/ /\ outcome = "neterr"
          /\ Settle(c, Finish(call, TransportFailure))
          /\ UNCHANGED classPage
       \/ /\ outcome = "ok"
          /\ classPage' = [classPage EXCEPT ![s] = page]
          /\ Settle(c, SubmitFocus([call EXCEPT !.unauth = ~Authenticated(j)], page))
    /\ UNCHANGED <<cookiePathAttr, srvAuth, srvFocus, srvPrimed, made, cookieJar,
                   loginCalled, resumed, exported, nOps>>
    /\ UNCHANGED decVars

\* the calls of the same object that have focused their class and await
\* the page that depends on it
AwaitingFocusedPage(c) ==
    {d \in Calls \ {c} : calls[d].sess = calls[c].sess /\ calls[d].pc = "getAssign"}

\* getClass / getAssignments once #loadClass has returned the body
AfterLoadClass(call, body) ==
    IF call.op = "getClass"
    THEN Finish(call, GetClassOf(body))
    ELSE [call EXCEPT !.pc = "getAssign",
                      !.reqs = Append(@, "GET portalAssignmentList.do")]

\* the answer to the focus POST arrives
FocusResponse(c, outcome) ==
    LET call == calls[c]
        s == call.sess
        j == ServerSession(RequestCookies(cookieJar[s], "portalClassList.do"))
        body == ServeFocus(j, call.token)
        seen == [call EXCEPT !.body = body,
                             !.unauth = call.unauth \/ ~Authenticated(j)]
        took == Authenticated(j) /\ call.token \in Tokens
        nc == AfterLoadClass(seen, body)
    IN
    /\ Quiet
    /\ call.pc = "lcFocus"
    /\ \/ /\ outcome = "neterr"
          /\ Settle(c, Finish(call, TransportFailure))
          /\ UNCHANGED srvFocus
       \/ /\ outcome = "ok"
          /\ srvFocus' = FocusAfter(j, call.token)
          /\ calls' = [d \in Calls |->
                IF d = c THEN (IF nc.pc = "done" THEN IdleCall ELSE nc)
                ELSE IF took /\ d \in AwaitingFocusedPage(c)
                     THEN [calls[d] EXCEPT !.lost = TRUE]
                     ELSE calls[d]]
          /\ last' = IF nc.pc = "done" THEN nc ELSE last
    /\ UNCHANGED <<cookiePathAttr, srvAuth, srvPrimed, made, cookieJar, classPage,
                   loginCalled, resumed, exported, nOps>>
    /\ UNCHANGED decVars

\* the rows of the assignment-list page, decoded
GetAssignmentsDecode(page) == Returned("list", AssignmentsOf(page))

AssignmentsResponse(c, outcome) ==
    LET call == calls[c]
        s == call.sess
        j == ServerSession(RequestCookies(cookieJar[s], "portalAssignmentList.do"))
        page == ServeAssignments(j)
    IN
    /\ Quiet
    /\ call.pc = "getAssign"
    /\ \/ /\ outcome = "neterr"
          /\ Settle(c, Finish(call, TransportFailure))
       \/ /\ outcome = "ok"
          /\ Settle(c, [Finish(call, GetAssignmentsDecode(page))
                          EXCEPT !.body = page,
                                 !.unauth = call.unauth \/ ~Authenticated(j)])
    /\ UNCHANGED <<cookiePathAttr, srvAuth, srvFocus, srvPrimed, made, cookieJar,
                   classPage, loginCalled, resumed, exported, nOps>>
    /\ UNCHANGED decVars

(***************************************************************************)
(* getSchedule                                                             *)
(***************************************************************************)
StartGetSchedule(c, s) ==
    /\ CanStart(c, s, "getSchedule")
    /\ calls' = [calls EXCEPT ![c] =
                    NewCall(s, "getSchedule", "none", FALSE, "getContext",
                            "GET studentScheduleContextList.do")]
    /\ nOps' = nOps + 1
    /\ UNCHANGED <<cookiePathAttr, srvAuth, srvFocus, srvPrimed, made, cookieJar,
                   classPage, loginCalled, resumed, exported, last>>
    /\ UNCHANGED decVars

\* a getSchedule that asks for the matrix page although its priming
\* request was rejected
ContextResponseFailureIgnored(c, outcome) ==
    LET call == calls[c]
        s == call.sess
        j == ServerSession(RequestCookies(cookieJar[s], "studentScheduleContextList.do"))
    IN
    /\ Quiet
    /\ call.pc = "getContext"
    /\ srvPrimed' = IF outcome = "ok" /\ Authenticated(j)
                    THEN [srvPrimed EXCEPT ![j] = TRUE]
                    ELSE srvPrimed
    /\ Settle(c, [call EXCEPT !.pc = "getMatrix",
                              !.unauth = ~Authenticated(j),
                              !.reqs = Append(@, "GET studentScheduleMatrix.do")])
    /\ UNCHANGED <<cookiePathAttr, srvAuth, srvFocus, made, cookieJar, classPage,
                   loginCalled, resumed, exported, nOps>>
    /\ UNCHANGED decVars

ContextResponse(c, outcome) ==
    LET call == calls[c]
        s == call.sess
        j == ServerSession(RequestCookies(cookieJar[s], "studentScheduleContextList.do"))
    IN
    /\ Quiet
    /\ call.pc = "getContext"
    /\ \/ /\ outcome = "neterr"
          /\ Settle(c, Finish(call, TransportFailure))
          /\ UNCHANGED srvPrimed
       \/ /\ outcome = "ok"
          /\ srvPrimed' = IF Authenticated(j) THEN [srvPrimed EXCEPT ![j] = TRUE]
                          ELSE srvPrimed
          /\ Settle(c, [call EXCEPT !.pc = "getMatrix",
                                    !.unauth = ~Authenticated(j),
                                    !.reqs = Append(@, "GET studentScheduleMatrix.do")])
    /\ UNCHANGED <<cookiePathAttr, srvAuth, srvFocus, made, cookieJar, classPage,
                   loginCalled, resumed, exported, nOps>>
    /\ UNCHANGED decVars

\* the schedule object built from the matrix page
GetScheduleDecode(page) ==
    Returned("schedule", [currentDay |-> "null", days |-> DaysOf(page)])

MatrixResponse(c, outcome) ==
    LET call == calls[c]
        s == call.sess
        j == ServerSession(RequestCookies(cookieJar[s], "studentScheduleMatrix.do"))
        page == ServeMatrix(j)
    IN
    /\ Quiet
    /\ call.pc = "getMatrix"
    /\ \/ /\ outcome = "neterr"
          /\ Settle(c, Finish(call, TransportFailure))
       \/ /\ outcome = "ok"
          /\ Settle(c, [Finish(call, GetScheduleDecode(page))
                          EXCEPT !.body = page,
                                 !.unauth = call.unauth \/ ~Authenticated(j)])
    /\ UNCHANGED <<cookiePathAttr, srvAuth, srvFocus, srvPrimed, made, cookieJar,
                   classPage, loginCalled, resumed, exported, nOps>>
    /\ UNCHANGED decVars

\* the caller of the settled call receives its result or its exception
Deliver ==
    /\ last.pc = "done"
    /\ last' = IdleCall
    /\ UNCHANGED <<cookiePathAttr, srvAuth, srvFocus, srvPrimed, made, cookieJar,
                   classPage, loginCalled, resumed, exported, calls, nOps>>
    /\ UNCHANGED decVars

(***************************************************************************)
(* The specification of the sessions.                                      *)
(***************************************************************************)
Outcomes == {"ok", "neterr"}
LoginStatuses == {"200", "302", "307", "500", "neterr"}

Next ==
    \/ \E s \in Sessions : Construct(s)
    \/ \E s \in Sessions : ExportCookies(s)
    \/ \E j \in JIds : ServerExpire(j)
    \/ \E c \in Calls, s \in Sessions, good \in BOOLEAN : StartLogin(c, s, good)
    \/ \E c \in Calls, o \in Outcomes : LogonPageResponse(c, o)
    \/ \E c \in Calls, st \in LoginStatuses, inv \in BOOLEAN, nlo \in BOOLEAN :
            LoginSubmitResponse(c, st, inv, nlo)
    \/ \E c \in Calls, s \in Sessions : StartGetClasses(c, s)
    \/ \E c \in Calls, o \in Outcomes : ClassListResponse(c, o)
    \/ \E c \in Calls, s \in Sessions, t \in TokenInputs :
            StartClassOp(c, s, "getClass", t)
    \/ \E c \in Calls, s \in Sessions, t \in Tokens :
            StartClassOp(c, s, "getAssignments", t)
    \/ \E c \in Calls, o \in Outcomes : LoadClassListResponse(c, o)
    \/ \E c \in Calls, o \in Outcomes : FocusResponse(c, o)
    \/ \E c \in Calls, o \in Outcomes : AssignmentsResponse(c, o)
    \/ \E c \in Calls, s \in Sessions : StartGetSchedule(c, s)
    \/ \E c \in Calls, o \in Outcomes : ContextResponse(c, o)
    \/ \E c \in Calls, o \in Outcomes : MatrixResponse(c, o)
    \/ Deliver

Spec == Init /\ [][Next]_vars

(***************************************************************************)
(* The specification of getClass's decoding: the document is drawn from a  *)
(* bounded family of grades grids and getClass decodes it.  A grid has     *)
(* nRows rows (weight row and score row of each category, then the summary *)
(* rows) of nTerms term cells; the cells of term 1 are drawn, the other    *)
(* terms hold fixed, different values.  The attendance rows have their     *)
(* five value cells, or lack the last one.                                 *)
(***************************************************************************)
MaxGradeRows == 8       \* rows of the grades grid
MaxTermCells == 5       \* term cells of a row
MaxAttCells == 5        \* value cells of an attendance row

Pct100 == <<"1", "0", "0", "%">>
ScoreTexts == {<<>>, Pct("9", "0"), Pct100}
WeightTexts == {<<>>, Pct("5", "0"), Pct("2", "0")}
OtherWeights == <<Pct("4", "0"), Pct("3", "0"), Pct("3", "0")>>
OtherScores == <<Pct("8", "0"), Pct("7", "0"), Pct("6", "0")>>
SummaryText == <<"8", "5", ".", "5", "%">>

\* row r (from 1) of the grid: rows 1, 3, 5 are weight rows (two labels),
\* rows 2, 4, 6 score rows (one label), the rest summary rows (one label)
GridRow(r, nTerms, w, sc) ==
    LET cat == (r + 1) \div 2
        cells(first, others) ==
            [k \in 1 .. nTerms |-> IF k = 1 THEN first ELSE others]
    IN  IF r > 6 THEN <<Lbl>> \o cells(SummaryText, SummaryText)
        ELSE IF r % 2 = 1 THEN <<Lbl, Lbl>> \o cells(w[cat], OtherWeights[cat])
        ELSE <<Lbl>> \o cells(sc[cat], OtherScores[cat])
GradesGrid(nRows, nTerms, w, sc) == [r \in 1 .. nRows |-> GridRow(r, nTerms, w, sc)]
\* the attendance grid: three rows of a label and nCells value cells
AttendanceGrid(nCells) ==
    [r \in 1 .. 3 |-> <<Lbl>> \o [k \in 1 .. nCells |-> <<Digits[r + k]>>]]

InitGetClass ==
    /\ cookiePathAttr = NoPathAttr
    /\ srvAuth = [j \in JIds |-> "none"]
    /\ srvFocus = [j \in JIds |-> "none"]
    /\ srvPrimed = [j \in JIds |-> FALSE]
    /\ made = [s \in Sessions |-> s = "s1"]
    /\ cookieJar = [s \in Sessions |-> {}]
    /\ classPage = [s \in Sessions |-> NoPage]
    /\ loginCalled = [s \in Sessions |-> FALSE]
    /\ resumed = [s \in Sessions |-> NotResumed]
    /\ exported = NoExport
    /\ calls = [c \in Calls |-> IdleCall]
    /\ last = IdleCall
    /\ nOps = 0
    /\ \E nRows \in 0 .. MaxGradeRows, nTerms \in 0 .. MaxTermCells,
          nCells \in MaxAttCells - 1 .. MaxAttCells,
          w \in [1 .. 3 -> WeightTexts], sc \in [1 .. 3 -> ScoreTexts] :
            detailDoc = Doc(ClassDoc("tA").meta, AttendanceGrid(nCells),
                            GradesGrid(nRows, nTerms, w, sc))
    /\ classData = NoRes
    /\ gridRows = NoGrid
    /\ gridData = NoRes
    /\ matrixDoc = NoMatrix
    /\ schedule = NoRes

\* getClass decodes the body #loadClass returned
DecodeClass ==
    /\ classData.kind = "none"
    /\ classData' = GetClassDecode(detailDoc)
    /\ UNCHANGED <<detailDoc, sessVars, gridRows, gridData, matrixDoc, schedule>>

NextGetClass == DecodeClass
SpecGetClass == InitGetClass /\ [][NextGetClass]_vars

(***************************************************************************)
(* The specification of the grid decoders: a page of up to MaxGridRows     *)
(* rows, each the first k cells of a well-formed row (k up to one more     *)
(* than the column map), is decoded by getClasses or by getAssignments.    *)
(* The token cell of a class row holds its two child elements or only one; *)
(* the grade cell of an assignment row holds zero, one or three td.        *)
(***************************************************************************)
MaxGridRows == 2            \* rows of the page
MaxClassCells == 13         \* cells of a class row
MaxAssignmentCells == 8     \* cells of an assignment row

SessionIdle ==
    /\ cookiePathAttr = NoPathAttr
    /\ srvAuth = [j \in JIds |-> "none"]
    /\ srvFocus = [j \in JIds |-> "none"]
    /\ srvPrimed = [j \in JIds |-> FALSE]
    /\ made = [s \in Sessions |-> s = "s1"]
    /\ cookieJar = [s \in Sessions |-> {}]
    /\ classPage = [s \in Sessions |-> NoPage]
    /\ loginCalled = [s \in Sessions |-> FALSE]
    /\ resumed = [s \in Sessions |-> NotResumed]
    /\ exported = NoExport
    /\ calls = [c \in Calls |-> IdleCall]
    /\ last = IdleCall
    /\ nOps = 0

TokenKids == {<<<<"c", "b">>, <<"t", "A">>>>, <<<<"c", "b">>>>}
ClassGradeTexts == {<<"9", "0", " ", "A">>, <<>>}
ClassTexts ==
    <<<<>>, <<"M", "a", "t", "h">>, <<"1", "0", "1">>, <<"F", "Y">>, <<"T">>,
      <<"e">>, <<"1", "2">>, <<"S">>, <<>>, <<"2">>, <<"0">>, <<"1">>>>
ClassRow(k, kids, g) ==
    [i \in 1 .. k |->
        IF i = 1 THEN Cell(<<>>, kids, <<>>)
        ELSE IF i = 9 THEN Cell(g, <<>>, <<>>)
        ELSE IF i <= Len(ClassTexts) THEN Cell(ClassTexts[i], <<>>, <<>>)
        ELSE Cell(<<"x">>, <<>>, <<>>)]
ClassRowChoices ==
    {ClassRow(k, kids, g) :
        k \in 0 .. MaxClassCells, kids \in TokenKids, g \in ClassGradeTexts}

GradeTds ==
    {<<>>, <<<<"U", "n", "g", "r", "a", "d", "e", "d">>>>,
     <<Pct("9", "0"), <<"9", " ", "/", " ", "1", "0">>, <<"(", "9", ")">>>>,
     <<Pct("0", "0"), <<"W", "S">>, <<"(", "W", "S", ")">>>>}
AssignmentTexts ==
    <<<<>>, <<"H", "W">>, <<"1", "/", "2">>, <<"1", "/", "3">>, <<"M", "W", "F">>,
      <<"g">>, <<"o", "k">>>>
AssignmentRow(k, tds) ==
    [i \in 1 .. k |->
        IF i = 6 THEN Cell(<<"g">>, <<>>, tds)
        ELSE IF i <= Len(AssignmentTexts) THEN Cell(AssignmentTexts[i], <<>>, <<>>)
        ELSE Cell(<<"x">>, <<>>, <<>>)]
AssignmentRowChoices ==
    {AssignmentRow(k, tds) : k \in 0 .. MaxAssignmentCells, tds \in GradeTds}

InitGrid ==
    /\ SessionIdle
    /\ detailDoc = EmptyDoc
    /\ classData = NoRes
    /\ matrixDoc = NoMatrix
    /\ schedule = NoRes
    /\ \E n \in 0 .. MaxGridRows :
          \/ \E rows \in [1 .. n -> ClassRowChoices] :
                gridRows = [op |-> "getClasses", rows |-> rows]
          \/ \E rows \in [1 .. n -> AssignmentRowChoices] :
                gridRows = [op |-> "getAssignments", rows |-> rows]
    /\ gridData = NoRes

\* getClasses decodes the page it fetched
DecodeClassList ==
    /\ gridData.kind = "none"
    /\ gridRows.op = "getClasses"
    /\ gridData' = ClassListDecode(gridRows.rows)
    /\ UNCHANGED <<sessVars, detailDoc, classData, gridRows, matrixDoc, schedule>>

\* getAssignments decodes the page it fetched
DecodeAssignmentList ==
    /\ gridData.kind = "none"
    /\ gridRows.op = "getAssignments"
    /\ gridData' = AssignmentListDecode(gridRows.rows)
    /\ UNCHANGED <<sessVars, detailDoc, classData, gridRows, matrixDoc, schedule>>

NextGrid == DecodeClassList \/ DecodeAssignmentList
SpecGrid == InitGrid /\ [][NextGrid]_vars

(***************************************************************************)
(* The specification of getSchedule's decoding: a matrix page of up to     *)
(* MaxDays day headers and as many columns, each of up to MaxPeriods class *)
(* cells.  A header starts with a day code and may be marked red; a class  *)
(* cell holds its four parts (the first cell of the page possibly only     *)
(* two) and may lie in a bordered grid cell.                               *)
(***************************************************************************)
MaxDays == 2        \* day-header cells of the page
MaxPeriods == 2     \* class cells of a day column

DayCodes == {"M", "T", "currentDay", "currentClass"}
HeaderChoices == {Header(<<code, "-", "Day">>, red) : code \in DayCodes, red \in BOOLEAN}
\* column `day` of the page: borders[n] tells whether class cell n is bordered
MatrixColumn(day, borders, short) ==
    [n \in 1 .. Len(borders) |->
        ClassElem(IF short /\ day = 1 /\ n = 1
                  THEN <<KeyOf(day), "Math">>
                  ELSE <<KeyOf(day), "Math", "T", KeyOf(n)>>,
                  borders[n])]
BorderChoices == UNION {[1 .. p -> BOOLEAN] : p \in 0 .. MaxPeriods}

InitSchedule ==
    /\ SessionIdle
    /\ detailDoc = EmptyDoc
    /\ classData = NoRes
    /\ gridRows = NoGrid
    /\ gridData = NoRes
    /\ \E d \in 0 .. MaxDays, short \in BOOLEAN :
          \E headers \in [1 .. d -> HeaderChoices], borders \in [1 .. d -> BorderChoices] :
              matrixDoc = [headers |-> headers,
                           columns |-> [i \in 1 .. d |-> MatrixColumn(i, borders[i], short)]]
    /\ schedule = NoRes

\* getSchedule decodes the matrix page it fetched
DecodeSchedule ==
    /\ schedule.kind = "none"
    /\ schedule' = ScheduleDecode(matrixDoc)
    /\ UNCHANGED <<sessVars, detailDoc, classData, gridRows, gridData, matrixDoc>>

NextSchedule == DecodeSchedule
SpecSchedule == InitSchedule /\ [][NextSchedule]_vars

(***************************************************************************)
(* The claims.  A claim about a call is stated of the call that has just   *)
(* settled (last): every call passes through that state when it returns    *)
(* or throws.                                                              *)
(***************************************************************************)
Settled(op) == last.pc = "done" /\ last.op = op
TransportFailed(r) == r.kind = "error" /\ r.cls = "RequestError"
DataOps == {"getClasses", "getClass", "getAssignments", "getSchedule"}

\* C1: class-scoped operations on one Session are serialized: no other
\* call's focus submission on the Session takes effect between a call's own
\* focus submission and the page fetch that depends on it, so a list
\* returned by getAssignments(token) holds the assignments of token only.
C1_FocusSerialized ==
    /\ \A c \in Calls : ~calls[c].lost
    /\ ~last.lost
    /\ (Settled("getAssignments") /\ last.result.kind = "list") =>
          \A i \in DOMAIN last.result.data : last.result.data[i].cls = last.token

\* C2: when the credential POST returns a body, login throws
\* InvalidLoginError for a body with the invalid-credentials marker,
\* InvalidSessionError for a body with (only) the not-logged-on marker, and
\* succeeds for a body with neither; it never succeeds for a body with a
\* marker.
C2_LoginClassification ==
    (Settled("login") /\ last.body.kind # "none") =>
        /\ IncludesInvalidLogin(last.body) => IsError(last.result, InvalidLoginError)
        /\ (IncludesNotLoggedOn(last.body) /\ ~IncludesInvalidLogin(last.body)) =>
              IsError(last.result, InvalidSessionError)
        /\ (~IncludesInvalidLogin(last.body) /\ ~IncludesNotLoggedOn(last.body)) <=>
              last.result.kind = "ok"

\* C2, witness: a login whose answer held only the not-logged-on marker has
\* thrown InvalidSessionError.
C2_Witness ==
    /\ Settled("login")
    /\ last.body.kind = "logon"
    /\ IncludesNotLoggedOn(last.body)
    /\ ~IncludesInvalidLogin(last.body)
    /\ IsError(last.result, InvalidSessionError)

\* the credentials were accepted and the redirect that followed reached its
\* target as a non-GET request, which the server answered with a non-2xx
RedirectMisdispatched(call) ==
    /\ call.accepted
    /\ call.status \in {"301", "302", "303", "307", "308"}
    /\ RedirectedMethod(call.status) # "GET"

Resumed(s) == made[s] /\ resumed[s].is /\ ~loginCalled[s]
\* the server-side session the object's requests name has expired
SessionExpired(s) ==
    LET j == ServerSession(RequestCookies(cookieJar[s], "portalClassList.do"))
    IN  j # 0 /\ srvAuth[j] = "expired"

\* C4: a data operation on an object resumed from the cookies of a session
\* the server has expired throws InvalidSessionError; it returns nothing
\* decoded from the not-logged-in page.
C4_ExpiredAtPointOfUse ==
    (/\ last.pc = "done"
     /\ last.op \in DataOps
     /\ Resumed(last.sess)
     /\ SessionExpired(last.sess)
     /\ last.unauth
     /\ ~TransportFailed(last.result))
        => IsError(last.result, InvalidSessionError)

\* C5: an object made from the exported cookies of a session sends every
\* cookie the exporting object sent, and its getClasses() returns the class
\* list as long as the server still holds the session authenticated.
C5_CookieRoundTrip ==
    /\ \A s \in Sessions :
          Resumed(s) =>
              resumed[s].want \subseteq RequestCookies(cookieJar[s], "portalClassList.do")
    /\ (/\ Settled("getClasses")
        /\ Resumed(last.sess)
        /\ Authenticated(ServerSession(resumed[last.sess].want))
        /\ ~TransportFailed(last.result))
          => (last.result.kind = "list" /\ last.result.data = Roster(ClassListPage))

\* C6: getClass(token) returns a ClassDetail only for an authenticated
\* session and a token the backend recognises: it throws
\* InvalidSessionError when the session is not authenticated and
\* UnknownClassError when the token is not recognised.
C6_GetClassErrors ==
    (Settled("getClass") /\ ~TransportFailed(last.result)) =>
        /\ last.unauth => IsError(last.result, InvalidSessionError)
        /\ (~last.unauth /\ last.token \notin Tokens) =>
              IsError(last.result, UnknownClassError)

\* C7: a non-2xx/3xx answer to the credential POST makes login throw
\* Generic500Error, never ConnectionError.
C7_ServerFailureIsGeneric500 ==
    (Settled("login") /\ last.status = "500") =>
        IsError(last.result, Generic500Error)

\* C8: when the transport fails on the fetch of the login page, login throws
\* ConnectionError, having sent no credential POST.
C8_BootstrapConnectionError ==
    (Settled("login") /\ last.reqs = <<"GET logon.do">>) =>
        IsError(last.result, ConnectionError)

(***************************************************************************)
(* Claims about the decoded ClassData.                                     *)
(***************************************************************************)
Terms == {"1", "2", "3", "4"}
Decoded == classData.kind = "classData"
TotalOf(t) == Get(classData.data.grades[t].fields, "total")
ScoreOf(t, cat) == Get(classData.data.grades[t].fields, cat)
WeightOf(t, cat) == Get(classData.data.grades[t].weights, cat)
Categories == {gradeCategories[i] : i \in 1 .. Len(gradeCategories)}
\* the cell of the score was empty: the absence-of-grade marker
Absent(x) == x.t = "null"

\* C9: a term where one category score is absent (empty cell) and another
\* is a number has no numeric total: the absent score is not counted as zero
\* in the weighted sum of the partial data.
C9_AbsentScoreNotCountedAsZero ==
    Decoded =>
        \A t \in Terms :
            (/\ \E cat \in Categories : Absent(ScoreOf(t, cat))
             /\ \E cat \in Categories : IsNumber(ScoreOf(t, cat)))
                => ~IsNumber(TotalOf(t))

\* C10: every term's total is a number, and it is zero when the page holds
\* no score and no weight for the term (the grid being short of rows or
\* cells included).
C10_TotalAlwaysDefined ==
    Decoded =>
        \A t \in Terms :
            /\ IsNumber(TotalOf(t))
            /\ (\A cat \in Categories :
                    /\ ~IsNumber(ScoreOf(t, cat))
                    /\ ~IsNumber(WeightOf(t, cat))) => TotalOf(t) = Num(0)

\* the text of the page's cell of term t (1..4) in the score row and in the
\* weight row of category n (1..3); empty when the page has no such cell
TermNo(t) == CHOOSE n \in 1 .. 4 : KeyOf(n) = t
PageScoreText(t, n) ==
    LET g == detailDoc.grades
    IN  IF 2 * n <= Len(g) /\ TermNo(t) + 1 <= Len(g[2 * n])
        THEN g[2 * n][TermNo(t) + 1] ELSE <<>>
PageWeightText(t, n) ==
    LET g == detailDoc.grades
    IN  IF 2 * n - 1 <= Len(g) /\ TermNo(t) + 2 <= Len(g[2 * n - 1])
        THEN g[2 * n - 1][TermNo(t) + 2] ELSE <<>>
\* the whole percentage a cell text shows, -1 for an empty cell
PagePct(text) ==
    IF text = <<>> THEN 0 - 1
    ELSE IF text = Pct100 THEN 100
    ELSE DigitVal(text[1]) * 10 + DigitVal(text[2])
AllPresent(t) ==
    \A cat \in Categories : IsNumber(ScoreOf(t, cat)) /\ IsNumber(WeightOf(t, cat))

\* C11: for each term t whose three category scores and weights are all
\* present in the returned ClassData, they are the values of term t's own
\* cells of the page, and total is (a*wa + p*wp + r*wr)/100 of them.
C11_TotalIsWeightedSumOfOwnTerm ==
    Decoded =>
        \A t \in Terms :
            AllPresent(t) =>
                /\ \A n \in 1 .. 3 :
                      /\ ScoreOf(t, gradeCategories[n]) = Num(PagePct(PageScoreText(t, n)))
                      /\ WeightOf(t, gradeCategories[n]) = Num(PagePct(PageWeightText(t, n)))
                /\ TotalOf(t) =
                      Frac(PagePct(PageScoreText(t, 1)) * PagePct(PageWeightText(t, 1))
                           + PagePct(PageScoreText(t, 2)) * PagePct(PageWeightText(t, 2))
                           + PagePct(PageScoreText(t, 3)) * PagePct(PageWeightText(t, 3)),
                           100)

\* C11, witness: a ClassData whose terms 1 and 2 are both fully present,
\* with different totals.
C11_Witness ==
    /\ Decoded
    /\ AllPresent("1")
    /\ AllPresent("2")
    /\ IsNumber(TotalOf("1"))
    /\ TotalOf("1") # TotalOf("2")

\* the per-term keys of an attendance kind of the returned ClassData, and
\* the number of value cells of its row on the page
AttendanceKinds == {attendanceFields[i] : i \in 1 .. Len(attendanceFields)}
AttendanceTermKeys(kind) == (DOMAIN classData.data.attendance[kind]) \ {"total"}
AttendanceCells(kind) ==
    LET r == CHOOSE i \in 1 .. Len(attendanceFields) : attendanceFields[i] = kind
    IN  Len(detailDoc.att[r]) - 1

GridDecoded == gridRows.op # "none" /\ gridData.kind # "none"
ColumnMap == IF gridRows.op = "getClasses" THEN classDataFields ELSE assignmentFields
\* the fields of the column map that the first k columns hold, and the rest
FieldsOfColumns(k) ==
    {FieldAt(ColumnMap, i) : i \in 0 .. k - 1} \ {"none"}
FieldsPastColumn(k) ==
    {FieldAt(ColumnMap, i) : i \in k .. Len(ColumnMap) - 1} \ {"none"}
\* every cell that is there is as the page makes it: the token cell of a
\* class row holds its checkbox element, the second child
CellsWellFormed ==
    gridRows.op = "getClasses" =>
        \A n \in 1 .. Len(gridRows.rows) :
            Len(gridRows.rows[n]) >= 1 => Len(gridRows.rows[n][1].kids) >= 2

\* C13: a grid of N data rows (cells that are there well-formed) decodes
\* without failing to exactly N records in row order: record n holds every
\* field of the column map, ignored columns apart, that row n has a cell
\* for, all of them for a full row, and leaves the fields of its missing
\* trailing columns unset.
C13_OneRecordPerRow ==
    (GridDecoded /\ CellsWellFormed) =>
        /\ gridData.kind = "list"
        /\ Len(gridData.data) = Len(gridRows.rows)
        /\ \A n \in 1 .. Len(gridRows.rows) :
              /\ FieldsOfColumns(Len(gridRows.rows[n])) \subseteq DOMAIN gridData.data[n]
              /\ FieldsPastColumn(Len(gridRows.rows[n])) \cap DOMAIN gridData.data[n] = {}

\* C13, witness: a class list of a three-cell row followed by a full row,
\* decoded to two records.
C13_Witness ==
    /\ GridDecoded
    /\ gridRows.op = "getClasses"
    /\ Len(gridRows.rows) = 2
    /\ Len(gridRows.rows[1]) = 3
    /\ Len(gridRows.rows[2]) = Len(classDataFields)
    /\ gridData.kind = "list"
    /\ Len(gridData.data) = 2
    /\ "term" \notin DOMAIN gridData.data[1]
    /\ "dismissed" \in DOMAIN gridData.data[2]

(***************************************************************************)
(* Claims about the decoded Schedule.                                      *)
(***************************************************************************)
ScheduleDecoded == schedule.kind = "schedule"
DayKeys == (DOMAIN schedule.data) \ ManagementKeys
\* the places <<day, n>> of the Periods whose currentPeriod is true
CurrentPeriods ==
    {p \in UNION {{<<k, n>> : n \in 1 .. Len(schedule.data[k].items)} : k \in DayKeys} :
        schedule.data[p[1]].items[p[2]].currentPeriod}

\* the day codes of the page's headers; none is a management key
HeaderCodes == {DayIdOf(matrixDoc.headers[i]) : i \in 1 .. Len(matrixDoc.headers)}
PlainDayCodes == HeaderCodes \cap ManagementKeys = {}

\* C14: for a page whose day codes are no management keys, the Schedule
\* has as many day keys as the page has day-header cells, its current day
\* is one day code or none, at most one Period of all days has
\* currentPeriod true, and that Period is the one under currentClass.
C14_ScheduleShape ==
    (ScheduleDecoded /\ PlainDayCodes) =>
        /\ Cardinality(DayKeys) = Len(matrixDoc.headers)
        /\ schedule.data["currentDay"].t \in {"null", "str"}
        /\ Cardinality(CurrentPeriods) <= 1
        /\ \A p \in CurrentPeriods :
              schedule.data["currentClass"] = schedule.data[p[1]].items[p[2]]

(***************************************************************************)
(* Claims about the requests of a call.                                    *)
(***************************************************************************)
\* the requests of an operation, in the order it sends them
RequestPlan(op) ==
    IF op = "login" THEN <<"GET logon.do", "POST logon.do">>
    ELSE IF op = "getClasses" THEN <<"GET portalClassList.do">>
    ELSE IF op = "getClass"
    THEN <<"GET portalClassList.do", "POST portalClassList.do">>
    ELSE IF op = "getAssignments"
    THEN <<"GET portalClassList.do", "POST portalClassList.do",
           "GET portalAssignmentList.do">>
    ELSE IF op = "getSchedule"
    THEN <<"GET studentScheduleContextList.do", "GET studentScheduleMatrix.do">>
    ELSE <<>>
PlanPlace(op, req) ==
    IF \E i \in 1 .. Len(RequestPlan(op)) : RequestPlan(op)[i] = req
    THEN CHOOSE i \in 1 .. Len(RequestPlan(op)) : RequestPlan(op)[i] = req
    ELSE 0
\* each request sent is one of the plan, later in the plan than the ones
\* sent before it: none is sent twice
SentOnceInOrder(call) ==
    /\ \A i \in 1 .. Len(call.reqs) : PlanPlace(call.op, call.reqs[i]) > 0
    /\ \A i, j \in 1 .. Len(call.reqs) :
          i < j => PlanPlace(call.op, call.reqs[i]) < PlanPlace(call.op, call.reqs[j])
\* the first request of the plan may be left out by a class-scoped
\* operation only (the class-list page is cached)
RanToCompletion(call) ==
    /\ call.reqs # <<>>
    /\ call.reqs[Len(call.reqs)] = RequestPlan(call.op)[Len(RequestPlan(call.op))]
    /\ Len(call.reqs) >= Len(RequestPlan(call.op)) - (IF call.op \in ClassOps THEN 1 ELSE 0)

C16_NoPartialRecords ==
    (GridDecoded /\ gridData.kind = "list") =>
        \A n \in 1 .. Len(gridData.data) :
            FieldsOfColumns(Len(ColumnMap)) \subseteq DOMAIN gridData.data[n]

\* no two headers of the page share their day code
DistinctDayCodes == Cardinality(HeaderCodes) = Len(matrixDoc.headers)

\* C17: whatever the day codes of the page (no two alike), currentDay is
\* still a day code or null and currentClass a Period or null, and every
\* day of the page has its key, with the class cells of its own column.
C17_ManagementKeysKept ==
    (ScheduleDecoded /\ DistinctDayCodes) =>
        /\ schedule.data["currentDay"].t \in {"null", "str"}
        /\ schedule.data["currentClass"].t \in {"null", "object"}
        /\ \A i \in 1 .. Len(matrixDoc.headers) :
              LET day == DayIdOf(matrixDoc.headers[i])
              IN  /\ day \in DOMAIN schedule.data
                  /\ schedule.data[day].t = "array"
                  /\ Len(schedule.data[day].items) = Len(matrixDoc.columns[i])

(***************************************************************************)
(* Claims about the cached class-list page.                                *)
(***************************************************************************)
Sent(call, req) == \E i \in 1 .. Len(call.reqs) : call.reqs[i] = req
\* in a step that starts a call: the call started
StartedCall ==
    IF last'.pc = "done" THEN last'
    ELSE calls'[CHOOSE c \in Calls : calls'[c] # calls[c]]
\* a class-scoped call starts with the class-list fetch exactly when its
\* object has no page cached
FetchesWhenNotCached ==
    (nOps' = nOps + 1 /\ StartedCall.op \in ClassOps) =>
        IF classPage[StartedCall.sess] = NoPage
        THEN StartedCall.reqs = <<"GET portalClassList.do">>
        ELSE ~Sent(StartedCall, "GET portalClassList.do")
\* the page #loadClass fetched is cached when it arrives
CachesWhatItFetched ==
    \A c \in Calls :
        (calls[c].pc = "lcList" /\ calls'[c] # calls[c]) =>
            \/ last'.pc = "done" /\ TransportFailed(last'.result)
                                 /\ classPage' = classPage
            \/ classPage'[calls[c].sess] # NoPage
\* the cache of an object is filled only when a class-list page one of its
\* calls requested arrives
FilledByFetch ==
    \A s \in Sessions :
        (classPage[s] = NoPage /\ classPage'[s] # NoPage) =>
            \E c \in Calls :
                /\ calls[c].sess = s
                /\ calls[c].pc \in {"getList", "lcList"}
                /\ calls[c].reqs = <<"GET portalClassList.do">>
                /\ calls'[c] # calls[c]
\* a focus submission is sent only by an object with a class-list page
\* cached, as the second request of a call that fetched the page or as the
\* first request of a call that found it
FocusAfterFetch(call) ==
    Sent(call, "POST portalClassList.do") =>
        /\ classPage[call.sess] # NoPage
        /\ \/ call.reqs[1] = "POST portalClassList.do"
           \/ /\ call.reqs[1] = "GET portalClassList.do"
              /\ call.reqs[2] = "POST portalClassList.do"
\* a getClass that found the page cached sent the focus submission only, and
\* what it returns is decoded from the body of that response
DecodesFocusBody ==
    (Settled("getClass") /\ ~Sent(last, "GET portalClassList.do")
                         /\ ~TransportFailed(last.result)
                         /\ HasClassListForm(classPage[last.sess])) =>
        /\ last.reqs = <<"POST portalClassList.do">>
        /\ last.body # NoPage
        /\ last.result.kind = GetClassOf(last.body).kind
        /\ last.result.kind = "classData" =>
              last.result.data = GetClassOf(last.body).data

\* C18: #loadClass fetches the class-list page exactly when none is cached
\* and caches what it fetched; so a focus submission is sent only after a
\* class-list fetch of the same object, and a getClass that finds the page
\* cached sends one request, the focus submission, and decodes its body.
C18_EnsureFocusUsesCache ==
    /\ [](/\ \A c \in Calls : FocusAfterFetch(calls[c])
          /\ FocusAfterFetch(last)
          /\ DecodesFocusBody)
    /\ [][FetchesWhenNotCached /\ CachesWhatItFetched /\ FilledByFetch]_vars

\* C18, witness: a getClass that sent the focus submission only and
\* returned the ClassData of its token.
C18_Witness ==
    /\ Settled("getClass")
    /\ last.reqs = <<"POST portalClassList.do">>
    /\ last.token \in Tokens
    /\ last.result.kind = "classData"
    /\ last.body = ClassDetailPage(last.token)

(***************************************************************************)
(* Claims about getAssignments.                                            *)
(***************************************************************************)
\* the assignment-list GET is the request right after the focus POST and
\* the last one, and the answer to the focus POST has arrived
ListAfterFocus(call) ==
    (call.op = "getAssignments" /\ Sent(call, "GET portalAssignmentList.do")) =>
        /\ Len(call.reqs) >= 2
        /\ call.reqs[Len(call.reqs)] = "GET portalAssignmentList.do"
        /\ call.reqs[Len(call.reqs) - 1] = "POST portalClassList.do"
        /\ \A i \in 1 .. Len(call.reqs) - 1 :
              call.reqs[i] # "GET portalAssignmentList.do"
        /\ call.body # NoPage
\* the assignment-list GET is sent in the step in which the answer to the
\* call's focus POST arrives, and not when that request is rejected
SentWhenFocusAnswered ==
    \A c \in Calls :
        (/\ calls'[c].op = "getAssignments"
         /\ ~Sent(calls[c], "GET portalAssignmentList.do")
         /\ Sent(calls'[c], "GET portalAssignmentList.do")) =>
            /\ calls[c].pc = "lcFocus"
            /\ calls[c].reqs[Len(calls[c].reqs)] = "POST portalClassList.do"
            /\ calls'[c].body = ServeFocus(
                   ServerSession(RequestCookies(cookieJar[calls[c].sess],
                                                "portalClassList.do")),
                   calls[c].token)
            /\ last' = last
\* a getAssignments whose #loadClass threw sent no assignment-list request
\* and throws
FocusFailureEndsCall ==
    (Settled("getAssignments") /\ ~Sent(last, "GET portalAssignmentList.do")) =>
        /\ last.result.kind = "error"
        /\ last.result.kind # "list"

\* C19: getAssignments requests the assignment list only once the answer to
\* its focus POST has arrived, as the request right after that POST; when
\* #loadClass throws (class-list fetch or focus POST rejected, no form on
\* the page) no assignment-list request is sent and the call throws.
C19_AssignmentsAfterFocus ==
    /\ [](/\ \A c \in Calls : ListAfterFocus(calls[c])
          /\ ListAfterFocus(last)
          /\ FocusFailureEndsCall)
    /\ [][SentWhenFocusAnswered]_vars

\* C19, witness: a getAssignments whose focus POST was rejected: it sent no
\* assignment-list request and threw.
C19_Witness ==
    /\ Settled("getAssignments")
    /\ last.reqs # <<>>
    /\ last.reqs[Len(last.reqs)] = "POST portalClassList.do"
    /\ TransportFailed(last.result)
    /\ ~Sent(last, "GET portalAssignmentList.do")

(***************************************************************************)
(* Claims about what replaces the cached class-list page.                  *)
(***************************************************************************)
\* in this step a getClasses of object s received its class-list page
GetClassesFetched(s) ==
    \E c \in Calls :
        /\ calls[c].sess = s
        /\ calls[c].op = "getClasses"
        /\ calls[c].pc = "getList"
        /\ calls'[c] # calls[c]

\* C20: a cached class-list page is replaced only when a getClasses of the
\* same object receives its page; every other step leaves it as it is, and
\* no step empties the cache.
C20_OnlyGetClassesReplacesCache ==
    [][\A s \in Sessions :
          classPage[s] # NoPage =>
              /\ classPage'[s] # NoPage
              /\ classPage'[s] # classPage[s] => GetClassesFetched(s)]_vars

(***************************************************************************)
(* Claims about a class-list page without the class-selection form.        *)
(***************************************************************************)
\* the call ended in #loadClass at the form: the page its object holds has
\* no classListForm
EndedAtMissingForm(call) ==
    /\ call.pc = "done"
    /\ call.op \in ClassOps
    /\ classPage[call.sess] # NoPage
    /\ ~HasClassListForm(classPage[call.sess])
    /\ ~TransportFailed(call.result)
    /\ call.result.kind = "error"

\* C21: a class-scoped call whose class-list page lacks the class-selection
\* form (the page of an expired session) throws InvalidSessionError and
\* sends no focus submission.
C21_MissingFormIsInvalidSession ==
    EndedAtMissingForm(last) =>
        /\ IsError(last.result, InvalidSessionError)
        /\ ~Sent(last, "POST portalClassList.do")

(***************************************************************************)
(* Claims about the rows of the grades grid getClass decodes.              *)
(***************************************************************************)
\* the page's grades grid as the specification describes it: six data rows
\* and the two summary rows
SixDataRowsTwoSummaryRows == Len(detailDoc.grades) = 8
\* the keys of a term's scores and of its weights are category names
\* (total is the key getClass adds itself)
OnlyCategoryKeys(t) ==
    /\ (DOMAIN classData.data.grades[t].weights) \subseteq Categories
    /\ (DOMAIN classData.data.grades[t].fields) \subseteq Categories \cup {"total"}
\* an empty cell of a data row is decoded to null
EmptyCellsAbsent(t) ==
    \A n \in 1 .. 3 :
        /\ (2 * n <= Len(detailDoc.grades) - 1
              /\ TermNo(t) + 1 <= Len(detailDoc.grades[2 * n])
              /\ PageScoreText(t, n) = <<>>)
                 => Absent(ScoreOf(t, gradeCategories[n]))
        /\ (2 * n - 1 <= Len(detailDoc.grades) - 1
              /\ TermNo(t) + 2 <= Len(detailDoc.grades[2 * n - 1])
              /\ PageWeightText(t, n) = <<>>)
                 => Absent(WeightOf(t, gradeCategories[n]))

\* C22: of a grades grid of six data rows and two summary rows getClass
\* decodes the data rows only: every term's scores and weights have keys
\* for the three categories only, and an empty cell is null, not zero.
C22_SummaryRowsIgnored ==
    (Decoded /\ SixDataRowsTwoSummaryRows) =>
        \A t \in Terms : OnlyCategoryKeys(t) /\ EmptyCellsAbsent(t)

(***************************************************************************)
(* Claims about the grade cell of an assignment row.                       *)
(***************************************************************************)
\* row n of the assignment list has a grade cell of three td
Graded(n) ==
    /\ Len(gridRows.rows[n]) >= 6
    /\ Len(gridRows.rows[n][6].tds) = 3
GradeTd(n, i) == Trim(gridRows.rows[n][6].tds[i])
\* the text between the parentheses of the third td, and what the
\* specification makes of it
InParentheses(n) == SliceToLast(GradeTd(n, 3), 1)
PointsExpected(n) ==
    IF IsNumber(NumberOf(InParentheses(n))) /\ IsNumber(ParseFloat(InParentheses(n)))
    THEN NumberOf(InParentheses(n))
    ELSE Str(InParentheses(n))
GradeAndScoreKept(n) ==
    /\ Get(gridData.data[n], "grade") = NumberOf(SliceToLast(GradeTd(n, 1), 0))
    /\ IsNumber(Get(gridData.data[n], "grade"))
    /\ Get(gridData.data[n], "score") = Str(GradeTd(n, 2))

\* C23: of a graded assignment, points is the number between the
\* parentheses when that text is numeric and the text itself otherwise,
\* never NaN; grade is the percentage as a number, score the literal text.
C23_PointsNumberOrLiteral ==
    (GridDecoded /\ gridRows.op = "getAssignments") =>
        \A n \in 1 .. Len(gridRows.rows) :
            Graded(n) =>
                /\ Get(gridData.data[n], "points").t # "NaN"
                /\ Get(gridData.data[n], "points") = PointsExpected(n)
                /\ GradeAndScoreKept(n)

(***************************************************************************)
(* Claims about the two requests of getSchedule.                           *)
(***************************************************************************)
\* a getSchedule has sent the priming request, or the priming request and
\* then the matrix request, and awaits the one it sent last
PrimingFirst(call) ==
    call.op = "getSchedule" =>
        /\ call.reqs \in {<<"GET studentScheduleContextList.do">>,
                          <<"GET studentScheduleContextList.do",
                            "GET studentScheduleMatrix.do">>}
        /\ call.pc = "getContext" => Len(call.reqs) = 1
        /\ call.pc = "getMatrix" => Len(call.reqs) = 2
\* the matrix request is sent in the step in which the answer to the call's
\* priming request arrives, and not when that request is rejected
MatrixWhenPrimingAnswered ==
    \A c \in Calls :
        (/\ calls'[c].op = "getSchedule"
         /\ ~Sent(calls[c], "GET studentScheduleMatrix.do")
         /\ Sent(calls'[c], "GET studentScheduleMatrix.do")) =>
            /\ calls[c].pc = "getContext"
            /\ calls[c].reqs = <<"GET studentScheduleContextList.do">>
            /\ last' = last
            /\ LET j == ServerSession(RequestCookies(cookieJar[calls[c].sess],
                                          "studentScheduleContextList.do"))
               IN  Authenticated(j) => srvPrimed'[j]
\* a getSchedule that sent no matrix request has thrown the rejection of
\* its priming request
PrimingFailureEndsCall ==
    (Settled("getSchedule") /\ ~Sent(last, "GET studentScheduleMatrix.do")) =>
        /\ TransportFailed(last.result)
        /\ last.result.kind # "schedule"

\* C24: getSchedule sends the priming request first and the matrix request
\* only once the answer to the priming request has arrived; when the
\* priming request is rejected the matrix page is not requested and the
\* call throws.
C24_MatrixAfterPriming ==
    /\ [](/\ \A c \in Calls : PrimingFirst(calls[c])
          /\ PrimingFirst(last)
          /\ PrimingFailureEndsCall)
    /\ [][MatrixWhenPrimingAnswered]_vars

\* C24, witness: a getSchedule whose priming request was rejected: it sent
\* that request only and threw.
C24_Witness ==
    /\ Settled("getSchedule")
    /\ last.reqs = <<"GET studentScheduleContextList.do">>
    /\ TransportFailed(last.result)

====
